---- MODULE Spec2Model ----
(***************************************************************************)
(* Model of the shoehorn CLI: the credential store (pkg/config), the HTTP  *)
(* transport (pkg/api client), the two login paths (OAuth2 device flow and *)
(* Personal Access Token), logout and auth status.                         *)
(*                                                                         *)
(* Times are integers: ZeroTime is Go's zero time.Time, the wall clock is  *)
(* always later than it.  A Go pointer that may be nil is a sequence of    *)
(* length 0 (nil) or 1 (the value pointed to).                             *)
(***************************************************************************)
EXTENDS Integers, Sequences, FiniteSets, TLC

\* ------------------------------------------------------------------ bounds
MaxTime == 3
MaxPolls == 3
MaxCmds == 2
MaxExpiresIn == 2
MaxInterval == 1
MaxLatency == 1
MaxEvents == 2

\* --------------------------------------------------------------- constants
ZeroTime == 0

Nil == <<>>
Some(x) == <<x>>
IsNil(o) == Len(o) = 0
Val(o) == o[1]

ProfileNames == {"default", "work"}
LocalServer == "http://localhost:8080"
Servers == {LocalServer, "https://portal.example"}
Tokens == {"shp_abc"}

\* ------------------------------------------------------- pkg/config types
User(email, name, tenant) ==
    [Email |-> email, Name |-> name, TenantID |-> tenant]

Auth(provider, issuer, client, access, refresh, ttype, expires, user) ==
    [ProviderType |-> provider, Issuer |-> issuer, ClientID |-> client,
     AccessToken |-> access, RefreshToken |-> refresh, TokenType |-> ttype,
     ExpiresAt |-> expires, User |-> user]

Profile(name, server, auth) ==
    [Name |-> name, Server |-> server, Auth |-> auth]

Config(version, current, profiles) ==
    [Version |-> version, CurrentProfile |-> current, Profiles |-> profiles]

\* Load's answer when no config file exists.
DefaultConfig ==
    Config("1.0", "default",
           [n \in ProfileNames |->
              IF n = "default" THEN Some(Profile("Default", LocalServer, Nil))
              ELSE Nil])

\* ---- yaml.Marshal / yaml.Unmarshal of a Config.
\* A document maps each key to Nil (key not written) or Some(scalar or
\* mapping).  Keys tagged omitempty are left out when the field is "", the
\* zero time or a nil pointer; reading a document leaves the field of a
\* missing key at its zero value.

\* time.Time is written as an RFC 3339 text and parsed back from it.
Instants == ZeroTime..(MaxTime + MaxExpiresIn + 1)
FormatTime(t) == "1970-01-01T00:00:" \o ToString(t) \o "Z"
ParseTime(text) == CHOOSE t \in Instants : FormatTime(t) = text

OmitEmpty(str) == IF str = "" THEN Nil ELSE Some(str)
OrEmpty(key) == IF IsNil(key) THEN "" ELSE Val(key)

MarshalUser(u) ==
    [email |-> Some(u.Email), name |-> OmitEmpty(u.Name),
     tenant_id |-> OmitEmpty(u.TenantID)]

UnmarshalUser(d) ==
    User(OrEmpty(d.email), OrEmpty(d.name), OrEmpty(d.tenant_id))

MarshalAuth(a) ==
    [provider_type |-> Some(a.ProviderType), issuer |-> Some(a.Issuer),
     client_id |-> Some(a.ClientID),
     access_token |-> OmitEmpty(a.AccessToken),
     refresh_token |-> OmitEmpty(a.RefreshToken),
     token_type |-> OmitEmpty(a.TokenType),
     expires_at |-> IF a.ExpiresAt = ZeroTime THEN Nil
                    ELSE Some(FormatTime(a.ExpiresAt)),
     user |-> IF IsNil(a.User) THEN Nil ELSE Some(MarshalUser(Val(a.User)))]

UnmarshalAuth(d) ==
    Auth(OrEmpty(d.provider_type), OrEmpty(d.issuer), OrEmpty(d.client_id),
         OrEmpty(d.access_token), OrEmpty(d.refresh_token),
         OrEmpty(d.token_type),
         IF IsNil(d.expires_at) THEN ZeroTime ELSE ParseTime(Val(d.expires_at)),
         IF IsNil(d.user) THEN Nil ELSE Some(UnmarshalUser(Val(d.user))))

IsZeroAuth(a) == a = Auth("", "", "", "", "", "", ZeroTime, Nil)

MarshalProfile_OmitsZeroAuth(pr) ==
    [name |-> Some(pr.Name), server |-> Some(pr.Server),
     auth |-> IF IsNil(pr.Auth) \/ IsZeroAuth(Val(pr.Auth)) THEN Nil
              ELSE Some(MarshalAuth(Val(pr.Auth)))]

MarshalProfile(pr) ==
    [name |-> Some(pr.Name), server |-> Some(pr.Server),
     auth |-> IF IsNil(pr.Auth) THEN Nil
              ELSE Some(MarshalAuth(Val(pr.Auth)))]

UnmarshalProfile(d) ==
    Profile(OrEmpty(d.name), OrEmpty(d.server),
            IF IsNil(d.auth) THEN Nil ELSE Some(UnmarshalAuth(Val(d.auth))))

MarshalYAML(c) ==
    [version |-> Some(c.Version), current_profile |-> Some(c.CurrentProfile),
     profiles |-> [n \in ProfileNames |->
                     IF IsNil(c.Profiles[n]) THEN Nil
                     ELSE Some(MarshalProfile(Val(c.Profiles[n])))]]

UnmarshalYAML(d) ==
    Config(OrEmpty(d.version), OrEmpty(d.current_profile),
           [n \in ProfileNames |->
              IF IsNil(d.profiles[n]) THEN Nil
              ELSE Some(UnmarshalProfile(Val(d.profiles[n])))])

\* The file is absent (Nil) or holds one YAML document.
Load(file) ==
    IF IsNil(file) THEN DefaultConfig ELSE UnmarshalYAML(Val(file))

SaveFile(c) == Some(MarshalYAML(c))

GetCurrentProfile(c) ==
    LET p == c.Profiles[c.CurrentProfile]
    IN  [ok |-> ~IsNil(p), profile |-> p]

IsAuthenticated_AuthPresent(c) ==
    LET p == c.Profiles[c.CurrentProfile]
    IN  ~IsNil(p) /\ ~IsNil(Val(p).Auth)

IsAuthenticated(c) ==
    LET r == GetCurrentProfile(c)
    IN  IF ~r.ok THEN FALSE
        ELSE /\ ~IsNil(Val(r.profile).Auth)
             /\ Val(Val(r.profile).Auth).AccessToken # ""

After_AtOrAfter(t, u) == t >= u

\* time.Time.After: strictly later.
After(t, u) == t > u

IsTokenExpired_ZeroNeverExpires(c, t) ==
    LET p == c.Profiles[c.CurrentProfile]
    IN  IF IsNil(p) THEN TRUE
        ELSE IF IsNil(Val(p).Auth) THEN TRUE
        ELSE IF Val(Val(p).Auth).ExpiresAt = ZeroTime THEN FALSE
        ELSE After(t, Val(Val(p).Auth).ExpiresAt)

IsTokenExpired(c, t) ==
    LET r == GetCurrentProfile(c)
    IN  IF ~r.ok THEN TRUE
        ELSE IF IsNil(Val(r.profile).Auth) THEN TRUE
        ELSE After(t, Val(Val(r.profile).Auth).ExpiresAt)

\* Config.IsPATAuth is called by runStatus; its body is not in the sources.
IsPATAuth(c) ==
    LET r == GetCurrentProfile(c)
    IN  /\ r.ok
        /\ ~IsNil(Val(r.profile).Auth)
        /\ Val(Val(r.profile).Auth).ProviderType = "pat"

SetAuth_ServerOnly(c, name, server, auth) ==
    [c EXCEPT !.Profiles[name] = Some([Val(@) EXCEPT !.Server = server])]

SetAuth(c, name, server, auth) ==
    [c EXCEPT !.Profiles[name] =
        Some([Val(@) EXCEPT !.Server = server, !.Auth = auth])]

\* ------------------------------------------------------- pkg/api transport
NoError == [kind |-> "nil", status |-> 0, msg |-> ""]
Error(kind) == [kind |-> kind, status |-> 0, msg |-> ""]
APIError(status, msg) == [kind |-> "api", status |-> status, msg |-> msg]

\* What the network and the server do with one request:
\*   sent     the request body could be marshalled and the request built
\*   net      httpClient.Do returned a response
\*   read     the response body could be read
\*   status   the response's status code
\*   envelope the body parses as {error:{message,code}}
\*   decodes  the body parses into the caller's result type
Exchange(sent, net, read, status, envelope, decodes) ==
    [sent |-> sent, net |-> net, read |-> read, status |-> status,
     envelope |-> envelope, decodes |-> decodes]

do_ErrorsFrom400(x, wantResult) ==
    IF ~x.sent THEN Error("marshal")
    ELSE IF ~x.net THEN Error("network")
    ELSE IF ~x.read THEN Error("read")
    ELSE IF x.status < 200 \/ x.status >= 400
         THEN APIError(x.status, "raw body")
    ELSE IF wantResult /\ ~x.decodes THEN Error("decode")
    ELSE NoError

\* Client.do: the error it returns for one exchange; wantResult is
\* "result != nil".
do(x, wantResult) ==
    IF ~x.sent THEN Error("marshal")
    ELSE IF ~x.net THEN Error("network")
    ELSE IF ~x.read THEN Error("read")
    ELSE IF x.status < 200 \/ x.status >= 300
         THEN IF ~x.envelope THEN APIError(x.status, "raw body")
              ELSE APIError(x.status, "error.message")
    ELSE IF wantResult /\ ~x.decodes THEN Error("decode")
    ELSE NoError

Requests_RetriesNetworkError(x) ==
    IF ~x.sent THEN 0 ELSE IF ~x.net THEN 2 ELSE 1

\* Number of HTTP requests Client.do puts on the wire for one exchange.
Requests(x) == IF x.sent THEN 1 ELSE 0

Get(x) == do(x, TRUE)
Post(x) == do(x, TRUE)

\* strings.TrimSpace(first + " " + last) for parts without outer blanks.
JoinName(first, last) ==
    IF first = "" THEN last
    ELSE IF last = "" THEN first
    ELSE first \o " " \o last

RawMe(id, email, name, user, first, last, tenant) ==
    [ID |-> id, Email |-> email, Name |-> name, User |-> user,
     FirstName |-> first, LastName |-> last, Tenant |-> tenant]

GetMe_SwallowsError(x, raw) ==
    [value |-> Some([ID |-> raw.ID, Email |-> raw.Email, Name |-> raw.Name,
                     TenantID |-> raw.Tenant]),
     err |-> NoError]

\* GetMe: (nil, err) on a failed Get, else the normalised identity.
GetMe(x, raw) ==
    LET err == Get(x)
        n1 == raw.Name
        n2 == IF n1 = "" THEN JoinName(raw.FirstName, raw.LastName) ELSE n1
        n3 == IF n2 = "" THEN raw.User ELSE n2
    IN  IF err.kind # "nil" THEN [value |-> Nil, err |-> err]
        ELSE [value |-> Some([ID |-> raw.ID, Email |-> raw.Email, Name |-> n3,
                              TenantID |-> raw.Tenant]),
              err |-> NoError]

\* ------------------------------------------------------- pkg/tui spinner
\* RunSpinner on the outcome r of fn.  mode is how the terminal program ran:
\*   "plain"      no TTY or plain mode: fn is called directly
\*   "tty_result" the result message was handled before any quit
\*   "tty_ctrlc"  ctrl+c was handled first: tea.Quit with result and err unset
\*   "tty_runerr" p.Run itself failed
RunSpinner(mode, r) ==
    IF mode = "plain" THEN r
    ELSE IF mode = "tty_runerr" THEN [value |-> Nil, err |-> Error("spinner")]
    ELSE IF mode = "tty_ctrlc" THEN [value |-> Nil, err |-> NoError]
    ELSE r

SpinnerModes == {"plain", "tty_result", "tty_ctrlc", "tty_runerr"}

\* ------------------------------------------------- commands: PAT login
\* runLoginWithPAT on the config file `file`.  started: fn's request was put
\* on the wire before the program ended (always so unless the spinner quit
\* first).  Result: the file afterwards, the function's outcome, the number
\* of identity requests and of Save calls.
runLoginWithPAT(file, server, token, mode, started, x, raw, saveOk) ==
    LET r    == RunSpinner(mode, GetMe(x, raw))
        reqs == IF mode \in {"plain", "tty_result"} \/ started
                THEN Requests(x) ELSE 0
        cfg0 == Load(file)
        cur  == cfg0.CurrentProfile
        cfg1 == IF IsNil(cfg0.Profiles[cur])
                THEN [cfg0 EXCEPT !.Profiles[cur] = Some(Profile(cur, "", Nil))]
                ELSE cfg0
        me   == Val(r.value)
        auth == Auth("pat", server, "", token, "", "", ZeroTime,
                     Some(User(me.Email, me.Name, me.TenantID)))
        cfg2 == SetAuth(cfg1, cur, server, Some(auth))
    IN  IF r.err.kind # "nil"
        THEN [file |-> file, result |-> "auth_failed_box", err |-> NoError,
              me |-> reqs, saves |-> 0]
        ELSE IF IsNil(r.value)
        THEN [file |-> file, result |-> "panic", err |-> Error("panic"),
              me |-> reqs, saves |-> 0]
        ELSE IF ~saveOk
        THEN [file |-> file, result |-> "save_failed", err |-> Error("save"),
              me |-> reqs, saves |-> 1]
        ELSE [file |-> SaveFile(cfg2), result |-> "ok", err |-> NoError,
              me |-> reqs, saves |-> 1]

\* ------------------------------------------------- commands: logout
runLogout_KeepsToken(file, saveOk) ==
    LET cfg0 == Load(file)
    IN  IF IsNil(cfg0.Profiles[cfg0.CurrentProfile])
        THEN [file |-> file, result |-> "profile_not_found",
              err |-> Error("profile"), requests |-> 0, saves |-> 0]
        ELSE IF ~saveOk
        THEN [file |-> file, result |-> "save_failed", err |-> Error("save"),
              requests |-> 0, saves |-> 1]
        ELSE [file |-> SaveFile(cfg0), result |-> "ok", err |-> NoError,
              requests |-> 0, saves |-> 1]

runLogout(file, saveOk) ==
    LET cfg0 == Load(file)
        r    == GetCurrentProfile(cfg0)
        cfg1 == [cfg0 EXCEPT !.Profiles[cfg0.CurrentProfile] =
                    Some([Val(@) EXCEPT !.Auth = Nil])]
    IN  IF ~r.ok
        THEN [file |-> file, result |-> "profile_not_found",
              err |-> Error("profile"), requests |-> 0, saves |-> 0]
        ELSE IF ~saveOk
        THEN [file |-> file, result |-> "save_failed", err |-> Error("save"),
              requests |-> 0, saves |-> 1]
        ELSE [file |-> SaveFile(cfg1), result |-> "ok", err |-> NoError,
              requests |-> 0, saves |-> 1]

\* ------------------------------------------------- commands: auth status
\* runStatus (PAT revision): the lines it prints and the requests it makes.
runStatus(file, t, x, serverSaysAuthenticated) ==
    LET cfg0 == Load(file)
        r    == GetCurrentProfile(cfg0)
        a    == Val(Val(r.profile).Auth)
        verify == a.AccessToken # "" /\ ~IsTokenExpired(cfg0, t)
        e    == Get(x)
    IN  IF ~r.ok
        THEN [result |-> "profile_not_found", status |-> "", token |-> "",
              server |-> "", requests |-> 0]
        ELSE IF ~IsAuthenticated(cfg0)
        THEN [result |-> "ok", status |-> "Not authenticated", token |-> "",
              server |-> "", requests |-> 0]
        ELSE [result |-> "ok",
              status |-> IF IsPATAuth(cfg0) THEN "Authenticated (PAT)"
                         ELSE "Authenticated",
              token |-> IF IsTokenExpired(cfg0, t) THEN "Expired"
                        ELSE IF IsPATAuth(cfg0) THEN "Valid (PAT, no expiry)"
                        ELSE "Valid (expires in)",
              server |-> IF ~verify THEN ""
                         ELSE IF e.kind # "nil" THEN "Unable to verify"
                         ELSE IF serverSaysAuthenticated THEN "Token verified"
                         ELSE "Token rejected",
              requests |-> IF verify THEN Requests(x) ELSE 0]

\* ------------------------------------------------------------------ state
VARIABLES
    file,       \* ~/.shoehorn/config.yaml: Nil or Some(document)
    now,        \* the wall clock
    ncmds,      \* commands run so far in this session
    cmd,        \* the command running or last run
    pc,         \* position inside the running command; "idle" between commands
    result,     \* outcome of the last finished command
    cfg,        \* runLogin: the config loaded at its start
    serverURL,  \* runLogin: the --server flag
    interval,   \* runLogin: poll interval
    deadline,   \* runLogin: time.Now().Add(timeout)
    pollResp,   \* runLogin: the last poll response
    calls,      \* requests and Save calls made by the current command
    hist,       \* what the current command was given and has seen
    out,        \* runStatus: what it printed
    arg,        \* input of the function under evaluation
    ret,        \* its value
    resCh,      \* runGetEntity: channel of the resources goroutine
    statCh,     \* runGetEntity: channel of the status goroutine
    scCh,       \* runGetEntity: channel of the scorecard goroutine
    fr,         \* runGetEntity: fetchResult
    gopc,       \* runGetEntity: position of each goroutine
    subErr,     \* runGetEntity: the error each sub-fetch returned (discarded)
    view,       \* runGetEntity: the detail panel it printed
    disk,       \* the bytes of config.yaml (line by line), Nil if absent
    proc,       \* concurrent CLI invocations: where each one stands
    sp          \* RunSpinner: the bubbletea program and the fn it runs

vars == <<file, now, ncmds, cmd, pc, result, cfg, serverURL, interval,
          deadline, pollResp, calls, hist, out, arg, ret,
         resCh, statCh, scCh, fr, gopc, subErr, view, disk, proc, sp>>

entityVars == <<resCh, statCh, scCh, fr, gopc, subErr, view>>

NoFetchResult == [resources |-> <<>>, status |-> Nil, scorecard |-> Nil]

NoSubErr == [res |-> NoError, stat |-> NoError, sc |-> NoError]

raceVars == <<disk, proc>>
spinVars == <<sp>>

Procs == {"p1", "p2"}

NoProc == [pc |-> "none", op |-> "", read |-> "", data |-> <<>>]

NoSpinner ==
    [pc |-> "none", fn |-> "none", queue |-> <<>>, events |-> 0,
     done |-> FALSE, result |-> <<>>, err |-> NoError]
NoSpin == sp = NoSpinner

NoRace ==
    /\ disk = Nil
    /\ proc = [p \in Procs |-> NoProc]

NoEntity ==
    /\ resCh = <<>>
    /\ statCh = <<>>
    /\ scCh = <<>>
    /\ fr = NoFetchResult
    /\ gopc = [res |-> "none", stat |-> "none", sc |-> "none"]
    /\ subErr = NoSubErr
    /\ view = Nil

NoCalls == [init |-> 0, poll |-> 0, me |-> 0, status |-> 0, other |-> 0,
            save |-> 0]

\* HTTP requests made by the current command.
NetCalls == calls.init + calls.poll + calls.me + calls.status + calls.other

NoHist == [file0 |-> Nil, pendings |-> 0, success |-> Nil, token |-> "",
           failed |-> FALSE, me |-> Nil, interrupted |-> FALSE]

NoOut == [result |-> "", status |-> "", token |-> "", server |-> "",
          requests |-> 0]

NoPollResp ==
    [AccessToken |-> "", RefreshToken |-> "", TokenType |-> "",
     ExpiresAt |-> ZeroTime, User |-> Nil, Pending |-> FALSE, Message |-> ""]

\* ------------------------------------------------------------ input sets
Alice == [Email |-> "a@b.com", Name |-> "A B", TenantID |-> "acme"]

DeviceAuth(exp) ==
    Auth("api", LocalServer, "shoehorn-cli", "tok_dev", "", "Bearer", exp,
         Some(Alice))

PATAuth ==
    Auth("pat", LocalServer, "", "shp_abc", "", "", ZeroTime, Some(Alice))

Profiles2(d, w) == [n \in ProfileNames |-> IF n = "default" THEN d ELSE w]

InitFiles ==
    { Nil,
      SaveFile(Config("1.0", "work",
                      Profiles2(Some(Profile("Default", LocalServer, Nil)), Nil))),
      SaveFile(Config("1.0", "default",
                      Profiles2(Some(Profile("Default", LocalServer,
                                             Some(DeviceAuth(2)))),
                                Some(Profile("Work", LocalServer, Nil))))),
      SaveFile(Config("1.0", "work",
                      Profiles2(Some(Profile("Default", LocalServer, Nil)),
                                Some(Profile("Work", LocalServer,
                                             Some(PATAuth)))))) }

\* One exchange of each kind Client.do tells apart.
SessionExchanges ==
    { Exchange(TRUE, TRUE, TRUE, 200, TRUE, TRUE),
      Exchange(TRUE, FALSE, TRUE, 200, TRUE, TRUE),
      Exchange(TRUE, TRUE, TRUE, 401, TRUE, TRUE),
      Exchange(TRUE, TRUE, TRUE, 200, TRUE, FALSE) }

RawMes ==
    { RawMe("u1", "a@b.com", "A B", "ab", "", "", "acme"),
      RawMe("u2", "c@d.org", "", "cd", "C", "D", ""),
      RawMe("u3", "e@f.net", "", "ef", "", "", "umbrella") }

PollResponses(t) ==
    [AccessToken : {"", "tok_dev"}, RefreshToken : {""}, TokenType : {"Bearer"},
     ExpiresAt : {ZeroTime, t + 2}, User : {Nil, Some(Alice)},
     Pending : BOOLEAN, Message : {"", "slow_down"}]

\* ------------------------------------------------------------------- Init
NoSession ==
    /\ ncmds = 0
    /\ cmd = "none"
    /\ pc = "idle"
    /\ result = ""
    /\ cfg = Nil
    /\ serverURL = ""
    /\ interval = 0
    /\ deadline = 0
    /\ pollResp = NoPollResp
    /\ calls = NoCalls
    /\ hist = NoHist
    /\ out = NoOut
    /\ NoEntity

NoCommand == NoSession /\ NoRace /\ NoSpin

Init ==
    /\ file \in InitFiles
    /\ now = 1
    /\ ncmds = 0
    /\ cmd = "none"
    /\ pc = "idle"
    /\ result = ""
    /\ cfg = Nil
    /\ serverURL = ""
    /\ interval = 0
    /\ deadline = 0
    /\ pollResp = NoPollResp
    /\ calls = NoCalls
    /\ hist = NoHist
    /\ out = NoOut
    /\ NoEntity
    /\ NoRace
    /\ NoSpin
    /\ arg = Nil
    /\ ret = Nil

CanStart == pc = "idle" /\ ncmds < MaxCmds

Finish(r) == pc' = "idle" /\ result' = r

\* Time passes between two commands.
Tick ==
    /\ pc = "idle"
    /\ now < MaxTime
    /\ now' = now + 1
    /\ UNCHANGED <<file, ncmds, cmd, pc, result, cfg, serverURL, interval,
                   deadline, pollResp, calls, hist, out, arg, ret>>
    /\ UNCHANGED entityVars
    /\ UNCHANGED raceVars
    /\ UNCHANGED spinVars

\* ---------------------------------------- shoehorn auth login --token (PAT)
CmdLoginPAT ==
    /\ CanStart
    /\ \E server \in Servers, token \in Tokens \cup {""},
          mode \in SpinnerModes, started \in BOOLEAN,
          x \in SessionExchanges, raw \in RawMes, saveOk \in BOOLEAN :
         LET r == runLoginWithPAT(file, server, token, mode, started, x, raw,
                                  saveOk)
         IN  /\ cmd' = "login_pat"
             /\ ncmds' = ncmds + 1
             /\ hist' = [NoHist EXCEPT !.file0 = file, !.token = token,
                                       !.failed = (do(x, TRUE).kind # "nil"),
                                       !.me = GetMe(x, raw).value]
             /\ IF token = ""
                THEN /\ Finish("token_required")
                     /\ calls' = NoCalls
                     /\ file' = file
                ELSE /\ Finish(r.result)
                     /\ calls' = [NoCalls EXCEPT !.me = r.me, !.save = r.saves]
                     /\ file' = r.file
    /\ UNCHANGED <<now, cfg, serverURL, interval, deadline, pollResp, out,
                   arg, ret>>
    /\ UNCHANGED entityVars
    /\ UNCHANGED raceVars
    /\ UNCHANGED spinVars

\* ------------------------------------------------- shoehorn auth logout
CmdLogout ==
    /\ CanStart
    /\ \E saveOk \in BOOLEAN :
         LET r == runLogout(file, saveOk)
         IN  /\ cmd' = "logout"
             /\ ncmds' = ncmds + 1
             /\ hist' = [NoHist EXCEPT !.file0 = file]
             /\ Finish(r.result)
             /\ calls' = [NoCalls EXCEPT !.other = r.requests,
                                         !.save = r.saves]
             /\ file' = r.file
    /\ UNCHANGED <<now, cfg, serverURL, interval, deadline, pollResp, out,
                   arg, ret>>
    /\ UNCHANGED entityVars
    /\ UNCHANGED raceVars
    /\ UNCHANGED spinVars

\* ------------------------------------------------- shoehorn auth status
CmdStatus ==
    /\ CanStart
    /\ \E x \in SessionExchanges, says \in BOOLEAN :
         LET r == runStatus(file, now, x, says)
         IN  /\ cmd' = "status"
             /\ ncmds' = ncmds + 1
             /\ hist' = [NoHist EXCEPT !.file0 = file]
             /\ Finish(r.result)
             /\ calls' = [NoCalls EXCEPT !.status = r.requests]
             /\ out' = r
    /\ UNCHANGED <<file, now, cfg, serverURL, interval, deadline, pollResp,
                   arg, ret>>
    /\ UNCHANGED entityVars
    /\ UNCHANGED raceVars
    /\ UNCHANGED spinVars

\* ------------------------------------- shoehorn auth login (device flow)
\* Step 4 of runLogin on the loaded config c: the profile lookup, the Auth
\* built from the poll response and the config handed to Save.
StoreCredentials_SwapsTokens(c, server, resp) ==
    LET cur  == c.CurrentProfile
        u    == Val(resp.User)
        auth == Auth("api", server, "shoehorn-cli", resp.RefreshToken,
                     resp.AccessToken, resp.TokenType, resp.ExpiresAt,
                     Some(User(u.Email, u.Name, u.TenantID)))
    IN  IF IsNil(c.Profiles[cur])
        THEN [result |-> "profile_not_found", cfg |-> c, saves |-> 0]
        ELSE IF IsNil(resp.User)
        THEN [result |-> "panic", cfg |-> c, saves |-> 0]
        ELSE [result |-> "ok", cfg |-> SetAuth(c, cur, server, Some(auth)),
              saves |-> 1]

StoreCredentials(c, server, resp) ==
    LET cur  == c.CurrentProfile
        u    == Val(resp.User)
        auth == Auth("api", server, "shoehorn-cli", resp.AccessToken,
                     resp.RefreshToken, resp.TokenType, resp.ExpiresAt,
                     Some(User(u.Email, u.Name, u.TenantID)))
    IN  IF IsNil(c.Profiles[cur])
        THEN [result |-> "profile_not_found", cfg |-> c, saves |-> 0]
        ELSE IF IsNil(resp.User)
        THEN [result |-> "panic", cfg |-> c, saves |-> 0]
        ELSE [result |-> "ok", cfg |-> SetAuth(c, cur, server, Some(auth)),
              saves |-> 1]

NextInterval_NoDouble(iv, resp) == iv

\* The interval slept after a pending response.
NextInterval(iv, resp) ==
    IF resp.Message = "slow_down" THEN iv * 2 ELSE iv

runLogin_Start ==
    /\ pc = "idle"
    /\ cmd = "none"
    /\ \E server \in Servers : serverURL' = server
    /\ hist' = [NoHist EXCEPT !.file0 = file]
    /\ cmd' = "login_device"
    /\ ncmds' = ncmds + 1
    /\ cfg' = Some(Load(file))
    /\ calls' = NoCalls
    /\ pollResp' = NoPollResp
    /\ pc' = "init"
    /\ UNCHANGED <<file, now, result, interval, deadline, out, arg, ret>>
    /\ UNCHANGED entityVars
    /\ UNCHANGED raceVars
    /\ UNCHANGED spinVars

runLogin_InitDeviceFlow ==
    /\ pc = "init"
    /\ \E x \in SessionExchanges, iv \in 0..MaxInterval,
          ex \in 0..MaxExpiresIn :
         /\ calls' = [calls EXCEPT !.init = @ + Requests(x)]
         /\ IF Post(x).kind # "nil"
            THEN /\ Finish("init_failed")
                 /\ UNCHANGED <<interval, deadline>>
            ELSE /\ interval' = iv
                 /\ deadline' = now + ex
                 /\ pc' = "loop"
                 /\ UNCHANGED result
    /\ UNCHANGED <<file, now, ncmds, cmd, cfg, serverURL, pollResp, hist, out,
                   arg, ret>>
    /\ UNCHANGED entityVars
    /\ UNCHANGED raceVars
    /\ UNCHANGED spinVars

runLogin_Expired_Breaks ==
    /\ pc = "loop"
    /\ After(now, deadline)
    /\ pc' = "store"
    /\ UNCHANGED <<file, now, ncmds, cmd, result, cfg, serverURL, interval,
                   deadline, pollResp, calls, hist, out, arg, ret>>
    /\ UNCHANGED entityVars
    /\ UNCHANGED raceVars
    /\ UNCHANGED spinVars

runLogin_Expired_Spins ==
    /\ pc = "loop"
    /\ After(now, deadline)
    /\ UNCHANGED vars

runLogin_Expired ==
    /\ pc = "loop"
    /\ After(now, deadline)
    /\ Finish("timeout")
    /\ UNCHANGED <<file, now, ncmds, cmd, cfg, serverURL, interval, deadline,
                   pollResp, calls, hist, out, arg, ret>>
    /\ UNCHANGED entityVars
    /\ UNCHANGED raceVars
    /\ UNCHANGED spinVars

runLogin_Poll_BreaksOnUnexpected ==
    /\ pc = "loop"
    /\ ~After(now, deadline)
    /\ \E x \in SessionExchanges, resp \in PollResponses(now),
          lat \in 0..MaxLatency :
         \* a request takes time: at most MaxPolls of them fit in no time
         /\ lat > 0 \/ calls.poll < MaxPolls
         /\ calls' = [calls EXCEPT !.poll = @ + Requests(x)]
         /\ IF Post(x).kind # "nil"
            THEN /\ Finish("poll_failed")
                 /\ pollResp' = NoPollResp
                 /\ now' = now + lat
                 /\ UNCHANGED <<interval, hist>>
            ELSE IF resp.AccessToken # ""
            THEN /\ pc' = "store"
                 /\ pollResp' = resp
                 /\ now' = now + lat
                 /\ hist' = [hist EXCEPT !.success = Some(resp)]
                 /\ UNCHANGED <<interval, result>>
            ELSE IF resp.Pending
            THEN /\ pc' = "loop"
                 /\ pollResp' = resp
                 /\ interval' = NextInterval(interval, resp)
                 /\ now' = now + lat + NextInterval(interval, resp)
                 /\ hist' = [hist EXCEPT !.pendings = @ + 1]
                 /\ UNCHANGED result
            ELSE /\ pc' = "store"
                 /\ pollResp' = resp
                 /\ now' = now + lat
                 /\ UNCHANGED <<interval, hist, result>>
    /\ UNCHANGED <<file, ncmds, cmd, cfg, serverURL, deadline, out, arg, ret>>
    /\ UNCHANGED entityVars
    /\ UNCHANGED raceVars
    /\ UNCHANGED spinVars

runLogin_Poll ==
    /\ pc = "loop"
    /\ ~After(now, deadline)
    /\ \E x \in SessionExchanges, resp \in PollResponses(now),
          lat \in 0..MaxLatency :
         \* a request takes time: at most MaxPolls of them fit in no time
         /\ lat > 0 \/ calls.poll < MaxPolls
         /\ calls' = [calls EXCEPT !.poll = @ + Requests(x)]
         /\ IF Post(x).kind # "nil"
            THEN /\ Finish("poll_failed")
                 /\ pollResp' = NoPollResp
                 /\ now' = now + lat
                 /\ UNCHANGED <<interval, hist>>
            ELSE IF resp.AccessToken # ""
            THEN /\ pc' = "store"
                 /\ pollResp' = resp
                 /\ now' = now + lat
                 /\ hist' = [hist EXCEPT !.success = Some(resp)]
                 /\ UNCHANGED <<interval, result>>
            ELSE IF resp.Pending
            THEN /\ pc' = "loop"
                 /\ pollResp' = resp
                 /\ interval' = NextInterval(interval, resp)
                 /\ now' = now + lat + NextInterval(interval, resp)
                 /\ hist' = [hist EXCEPT !.pendings = @ + 1]
                 /\ UNCHANGED result
            ELSE /\ Finish("unexpected")
                 /\ pollResp' = resp
                 /\ now' = now + lat
                 /\ UNCHANGED <<interval, hist>>
    /\ UNCHANGED <<file, ncmds, cmd, cfg, serverURL, deadline, out, arg, ret>>
    /\ UNCHANGED entityVars
    /\ UNCHANGED raceVars
    /\ UNCHANGED spinVars

runLogin_Store ==
    /\ pc = "store"
    /\ \E saveOk \in BOOLEAN :
         LET r == StoreCredentials(Val(cfg), serverURL, pollResp)
         IN  /\ cfg' = Some(r.cfg)
             /\ calls' = [calls EXCEPT !.save = @ + r.saves]
             /\ IF r.result # "ok"
                THEN Finish(r.result) /\ file' = file
                ELSE IF saveOk
                THEN Finish("ok") /\ file' = SaveFile(r.cfg)
                ELSE Finish("save_failed") /\ file' = file
    /\ UNCHANGED <<now, ncmds, cmd, serverURL, interval, deadline, pollResp,
                   hist, out, arg, ret>>
    /\ UNCHANGED entityVars
    /\ UNCHANGED raceVars
    /\ UNCHANGED spinVars

\* ------------------------------------------------------------------- Spec
\* A session of the PAT revision of the CLI: commands run one after another
\* on the same config file.
Next ==
    \/ Tick
    \/ CmdLoginPAT
    \/ CmdLogout
    \/ CmdStatus

Spec == Init /\ [][Next]_vars

\* One invocation of the device-flow revision's login.
NextDevice ==
    \/ runLogin_Start
    \/ runLogin_InitDeviceFlow
    \/ runLogin_Expired
    \/ runLogin_Poll
    \/ runLogin_Store

SpecDevice == Init /\ [][NextDevice]_vars

\* runLogin is scheduled until it returns, and every request comes back:
\* the HTTP client gives up after 30 seconds.
\* The poll loop reads nothing of the config: one login on a fresh machine.
InitFresh == Init /\ file = Nil

FairSpecDevice == InitFresh /\ [][NextDevice]_vars /\ WF_vars(NextDevice)

\* An operator interrupt (SIGINT) while runLogin polls or sleeps.  runLogin
\* runs on context.Background() and installs no signal handler: the signal
\* ends the process where it stands.
runLogin_Interrupt ==
    /\ pc = "loop"
    /\ Finish("killed")
    /\ hist' = [hist EXCEPT !.interrupted = TRUE]
    /\ UNCHANGED <<file, now, ncmds, cmd, cfg, serverURL, interval, deadline,
                   pollResp, calls, out, arg, ret>>
    /\ UNCHANGED entityVars
    /\ UNCHANGED raceVars
    /\ UNCHANGED spinVars

NextDeviceSignal ==
    \/ runLogin_Start
    \/ runLogin_InitDeviceFlow
    \/ runLogin_Expired
    \/ runLogin_Poll
    \/ runLogin_Store
    \/ runLogin_Interrupt

SpecDeviceSignal == Init /\ [][NextDeviceSignal]_vars

\* ------------------------------------------- the predicates of pkg/config
\* Every shape of the current profile's auth, next to a second profile.
AuthValues ==
    { Auth(p, LocalServer, "", tok, "", "", e, Nil) :
        p \in {"pat", "device", "api"}, tok \in {"", "shp_abc"},
        e \in ZeroTime..(MaxTime + 1) }

ProfileValues ==
    {Nil, Some(Profile("P", LocalServer, Nil))}
        \cup { Some(Profile("P", LocalServer, Some(a))) : a \in AuthValues }

OtherProfileValues ==
    { Nil, Some(Profile("Q", LocalServer, Nil)),
      Some(Profile("Q", LocalServer, Some(PATAuth))) }

ConfigValues ==
    { Config("1.0", "default", Profiles2(p, q)) :
        p \in ProfileValues, q \in OtherProfileValues }
      \cup
    { Config("1.0", "work", Profiles2(q, p)) :
        p \in ProfileValues, q \in OtherProfileValues }

InitConfig ==
    /\ arg \in { Some(c) : c \in ConfigValues }
    /\ ret = Nil
    /\ now \in 1..MaxTime
    /\ file = Nil
    /\ NoCommand

\* Config.IsAuthenticated, Config.IsTokenExpired and Config.IsPATAuth are
\* called on the config at the current time.
EvalConfig ==
    /\ ret = Nil
    /\ ret' = Some([authenticated |-> IsAuthenticated(Val(arg)),
                    expired |-> IsTokenExpired(Val(arg), now),
                    pat |-> IsPATAuth(Val(arg))])
    /\ UNCHANGED <<file, now, ncmds, cmd, pc, result, cfg, serverURL,
                   interval, deadline, pollResp, calls, hist, out, arg>>
    /\ UNCHANGED entityVars
    /\ UNCHANGED raceVars
    /\ UNCHANGED spinVars

NextConfig == EvalConfig

SpecConfig == InitConfig /\ [][NextConfig]_vars

\* ------------------------------------------- the transport of pkg/api
StatusCodes == 100..599

InitTransport ==
    /\ arg \in { Some([x |-> Exchange(s, n, r, st, e, d), want |-> w]) :
                   s \in BOOLEAN, n \in BOOLEAN, r \in BOOLEAN,
                   st \in StatusCodes, e \in BOOLEAN, d \in BOOLEAN,
                   w \in BOOLEAN }
    /\ ret = Nil
    /\ now = 1
    /\ file = Nil
    /\ NoCommand

\* One call of Client.do.
CallDo ==
    /\ ret = Nil
    /\ ret' = Some(do(Val(arg).x, Val(arg).want))
    /\ UNCHANGED <<file, now, ncmds, cmd, pc, result, cfg, serverURL,
                   interval, deadline, pollResp, calls, hist, out, arg>>
    /\ UNCHANGED entityVars
    /\ UNCHANGED raceVars
    /\ UNCHANGED spinVars

NextTransport == CallDo

SpecTransport == InitTransport /\ [][NextTransport]_vars

\* ------------------------------------------------------- exit codes (pkg/ui)
ExitSuccess == 0
ExitError == 1
ExitAuthRequired == 2
ExitNotFound == 3
ExitValidation == 4
ExitTimeout == 5
ExitCancelled == 6

\* The substrings ExitWithError looks for in the lower-cased error text.
Needles ==
    {"not authenticated", "authentication required", "401", "not found",
     "404", "validation", "invalid", "400", "timeout", "deadline exceeded",
     "cancelled", "canceled"}

\* An error text is the set of needles that occur in it.  words are the
\* needles occurring in the part the environment supplies (the server's
\* message of an API error, the cause of a network error).
StatusText(status) ==
    IF status = 401 THEN {"401"}
    ELSE IF status = 404 THEN {"404"}
    ELSE IF status = 400 THEN {"400"}
    ELSE {}

ErrorText(e, words) ==
    IF e.kind = "api" THEN StatusText(e.status) \cup words
    ELSE IF e.kind = "network" THEN words
    ELSE IF e.kind = "not_authenticated" THEN {"not authenticated"}
    ELSE IF e.kind = "profile" THEN {"not found"}
    ELSE IF e.kind = "timeout" THEN {"timeout"}
    ELSE {}

\* ExitWithError: the exit code it chooses for an error.
ExitWithError(e, words) ==
    LET t == ErrorText(e, words)
    IN  IF e.kind = "nil" THEN ExitSuccess
        ELSE IF {"not authenticated", "authentication required", "401"} \cap t # {}
        THEN ExitAuthRequired
        ELSE IF {"not found", "404"} \cap t # {} THEN ExitNotFound
        ELSE IF {"validation", "invalid", "400"} \cap t # {} THEN ExitValidation
        ELSE IF {"timeout", "deadline exceeded"} \cap t # {} THEN ExitTimeout
        ELSE IF {"cancelled", "canceled"} \cap t # {} THEN ExitCancelled
        ELSE ExitError

\* main: the exit code of the process for the error Execute returned.
MainExit(e) == IF e.kind # "nil" THEN 1 ELSE 0

\* Errors the commands return, with the needles the environment's part of
\* the text may hold.
SurfacedErrors ==
    {NoError, Error("network"), Error("decode"), Error("not_authenticated"),
     Error("profile"), Error("timeout")}
      \cup { APIError(st, "error.message") : st \in StatusCodes \ (200..299) }

BodyWords == {{}, {"not found"}, {"invalid"}, {"deadline exceeded"}}

InitExit ==
    /\ arg \in { Some([err |-> e,
                       words |-> IF e.kind \in {"api", "network"} THEN w
                                 ELSE {}]) :
                   e \in SurfacedErrors, w \in BodyWords }
    /\ ret = Nil
    /\ now = 1
    /\ file = Nil
    /\ NoCommand

\* The process ends with the error a command returned.
ExitProcess ==
    /\ ret = Nil
    /\ ret' = Some([classified |-> ExitWithError(Val(arg).err, Val(arg).words),
                    process |-> MainExit(Val(arg).err)])
    /\ UNCHANGED <<file, now, ncmds, cmd, pc, result, cfg, serverURL,
                   interval, deadline, pollResp, calls, hist, out, arg>>
    /\ UNCHANGED entityVars
    /\ UNCHANGED raceVars
    /\ UNCHANGED spinVars

NextExit == ExitProcess

SpecExit == InitExit /\ [][NextExit]_vars

\* ------------------------------------------- get entity (detail fan-out)
ChanCap == 1

EntityDetail == [Name |-> "svc", Type |-> "service", Links |-> <<"docs">>]

ResourceLists == {<<>>, <<"db">>, <<"db", "cache">>}
EntityStatuses == {[Health |-> "healthy"]}
Scorecards == {[Grade |-> "A", Failed |-> <<>>],
               [Grade |-> "C", Failed |-> <<"has-readme">>]}

EntityExchanges ==
    { Exchange(TRUE, TRUE, TRUE, 200, TRUE, TRUE),
      Exchange(TRUE, FALSE, TRUE, 200, TRUE, TRUE),
      Exchange(TRUE, TRUE, TRUE, 500, TRUE, TRUE) }

\* NewClientFromConfig: the client built from the stored config, or the
\* error that stops the command.
NewClientFromConfig(f) ==
    LET c == Load(f)
        r == GetCurrentProfile(c)
    IN  IF ~IsAuthenticated(c)
        THEN [err |-> Error("not_authenticated"), profile |-> "",
              server |-> "", token |-> ""]
        ELSE [err |-> NoError, profile |-> c.CurrentProfile,
              server |-> Val(r.profile).Server,
              token |-> Val(Val(r.profile).Auth).AccessToken]

GetEntity(x) ==
    IF Get(x) # NoError THEN [value |-> Nil, err |-> Get(x)]
    ELSE [value |-> Some(EntityDetail), err |-> NoError]

\* A nil slice and an empty one are both the empty sequence.
GetEntityResources(x, list) ==
    IF Get(x) # NoError THEN [value |-> <<>>, err |-> Get(x)]
    ELSE [value |-> list, err |-> NoError]

GetEntityStatus(x, st) ==
    IF Get(x) # NoError THEN [value |-> Nil, err |-> Get(x)]
    ELSE [value |-> Some(st), err |-> NoError]

GetEntityScorecard(x, sc) ==
    IF Get(x) # NoError THEN [value |-> Nil, err |-> Get(x)]
    ELSE [value |-> Some(sc), err |-> NoError]

Field(label, value) == [Label |-> label, Value |-> value]
DetailSection(title, fields) == [Title |-> title, Fields |-> fields]

\* The sections runGetEntity hands to RenderDetail.
MainFields(entity, status) ==
    <<Field("Type", <<entity.Type>>)>>
      \o (IF ~IsNil(status)
          THEN <<Field("Status", <<Val(status).Health>>)>> ELSE <<>>)
      \o (IF Len(entity.Links) > 0
          THEN <<Field("Links", entity.Links)>> ELSE <<>>)

ResourcesSection(resources) ==
    IF Len(resources) > 0
    THEN <<DetailSection("Resources",
              [i \in 1..Len(resources) |-> Field(resources[i], <<>>)])>>
    ELSE <<>>

ScorecardSection(scorecard) ==
    IF ~IsNil(scorecard)
    THEN <<DetailSection("Scorecard",
              <<Field("Grade", <<Val(scorecard).Grade>>)>>
                \o (IF Len(Val(scorecard).Failed) > 0
                    THEN <<Field("Failed", Val(scorecard).Failed)>>
                    ELSE <<>>))>>
    ELSE <<>>

Sections(entity, f) ==
    <<DetailSection("", MainFields(entity, f.status))>>
      \o ResourcesSection(f.resources) \o ScorecardSection(f.scorecard)

InitEntity ==
    /\ file \in InitFiles
    /\ now = 1
    /\ arg = Nil
    /\ ret = Nil
    /\ NoCommand

\* runGetEntity up to the start of the goroutines.
runGetEntity_Start ==
    /\ pc = "idle" /\ cmd = "none"
    /\ \E showScorecard \in BOOLEAN, mode \in {"table", "json", "yaml"},
          spin \in SpinnerModes, x \in EntityExchanges :
         LET cl == NewClientFromConfig(file)
             r  == RunSpinner(spin, GetEntity(x))
         IN  /\ cmd' = "get_entity"
             /\ ncmds' = ncmds + 1
             /\ arg' = Some([showScorecard |-> showScorecard, mode |-> mode])
             /\ IF cl.err # NoError
                THEN /\ Finish("not_authenticated")
                     /\ UNCHANGED <<calls, gopc, scCh>>
                ELSE /\ calls' = [calls EXCEPT !.other = @ + Requests(x)]
                     /\ IF r.err # NoError
                        THEN /\ Finish("get_entity_failed")
                             /\ UNCHANGED <<gopc, scCh>>
                        ELSE IF IsNil(r.value)
                        THEN /\ Finish("panic")
                             /\ UNCHANGED <<gopc, scCh>>
                        ELSE IF mode \in {"json", "yaml"}
                        THEN /\ Finish("ok")
                             /\ UNCHANGED <<gopc, scCh>>
                        ELSE /\ pc' = "recv_res"
                             /\ result' = result
                             /\ gopc' = [res |-> "run", stat |-> "run",
                                         sc |-> IF showScorecard THEN "run"
                                                ELSE "none"]
                             /\ scCh' = IF showScorecard THEN <<>>
                                        ELSE <<Nil>>
    /\ UNCHANGED <<file, now, cfg, serverURL, interval, deadline, pollResp,
                   hist, out, ret, resCh, statCh, fr, subErr, view>>
    /\ UNCHANGED raceVars
    /\ UNCHANGED spinVars

\* go func() { r, _ := client.GetEntityResources(...); resCh <- r }()
go_Resources ==
    /\ gopc.res = "run" /\ Len(resCh) < ChanCap
    /\ \E x \in EntityExchanges, list \in ResourceLists :
         LET r == GetEntityResources(x, list)
         IN  /\ resCh' = Append(resCh, r.value)
             /\ subErr' = [subErr EXCEPT !.res = r.err]
             /\ calls' = [calls EXCEPT !.other = @ + Requests(x)]
    /\ gopc' = [gopc EXCEPT !.res = "done"]
    /\ UNCHANGED <<file, now, ncmds, cmd, pc, result, cfg, serverURL,
                   interval, deadline, pollResp, hist, out, arg, ret,
                   statCh, scCh, fr, view>>
    /\ UNCHANGED raceVars
    /\ UNCHANGED spinVars

\* go func() { s, _ := client.GetEntityStatus(...); statCh <- s }()
go_Status ==
    /\ gopc.stat = "run" /\ Len(statCh) < ChanCap
    /\ \E x \in EntityExchanges, st \in EntityStatuses :
         LET r == GetEntityStatus(x, st)
         IN  /\ statCh' = Append(statCh, r.value)
             /\ subErr' = [subErr EXCEPT !.stat = r.err]
             /\ calls' = [calls EXCEPT !.other = @ + Requests(x)]
    /\ gopc' = [gopc EXCEPT !.stat = "done"]
    /\ UNCHANGED <<file, now, ncmds, cmd, pc, result, cfg, serverURL,
                   interval, deadline, pollResp, hist, out, arg, ret,
                   resCh, scCh, fr, view>>
    /\ UNCHANGED raceVars
    /\ UNCHANGED spinVars

go_Scorecard_ReturnsOnError ==
    /\ gopc.sc = "run" /\ Len(scCh) < ChanCap
    /\ \E x \in EntityExchanges, sc \in Scorecards :
         LET r == GetEntityScorecard(x, sc)
         IN  /\ scCh' = IF r.err # NoError THEN scCh
                        ELSE Append(scCh, r.value)
             /\ subErr' = [subErr EXCEPT !.sc = r.err]
             /\ calls' = [calls EXCEPT !.other = @ + Requests(x)]
    /\ gopc' = [gopc EXCEPT !.sc = "done"]
    /\ UNCHANGED <<file, now, ncmds, cmd, pc, result, cfg, serverURL,
                   interval, deadline, pollResp, hist, out, arg, ret,
                   resCh, statCh, fr, view>>
    /\ UNCHANGED raceVars
    /\ UNCHANGED spinVars

\* go func() { sc, _ := client.GetEntityScorecard(...); scCh <- sc }()
go_Scorecard ==
    /\ gopc.sc = "run" /\ Len(scCh) < ChanCap
    /\ \E x \in EntityExchanges, sc \in Scorecards :
         LET r == GetEntityScorecard(x, sc)
         IN  /\ scCh' = Append(scCh, r.value)
             /\ subErr' = [subErr EXCEPT !.sc = r.err]
             /\ calls' = [calls EXCEPT !.other = @ + Requests(x)]
    /\ gopc' = [gopc EXCEPT !.sc = "done"]
    /\ UNCHANGED <<file, now, ncmds, cmd, pc, result, cfg, serverURL,
                   interval, deadline, pollResp, hist, out, arg, ret,
                   resCh, statCh, fr, view>>
    /\ UNCHANGED raceVars
    /\ UNCHANGED spinVars

runGetEntity_RecvResources_ShortCircuits ==
    /\ pc = "recv_res" /\ Len(resCh) > 0
    /\ fr' = [fr EXCEPT !.resources = Head(resCh)]
    /\ resCh' = Tail(resCh)
    /\ view' = Some(Sections(EntityDetail, fr'))
    /\ Finish("ok")
    /\ UNCHANGED <<file, now, ncmds, cmd, cfg, serverURL, interval,
                   deadline, pollResp, calls, hist, out, arg, ret,
                   statCh, scCh, gopc, subErr>>
    /\ UNCHANGED raceVars
    /\ UNCHANGED spinVars

\* fr.resources = <-resCh
runGetEntity_RecvResources ==
    /\ pc = "recv_res" /\ Len(resCh) > 0
    /\ fr' = [fr EXCEPT !.resources = Head(resCh)]
    /\ resCh' = Tail(resCh)
    /\ pc' = "recv_stat"
    /\ UNCHANGED <<file, now, ncmds, cmd, result, cfg, serverURL, interval,
                   deadline, pollResp, calls, hist, out, arg, ret,
                   statCh, scCh, gopc, subErr, view>>
    /\ UNCHANGED raceVars
    /\ UNCHANGED spinVars

\* fr.status = <-statCh
runGetEntity_RecvStatus ==
    /\ pc = "recv_stat" /\ Len(statCh) > 0
    /\ fr' = [fr EXCEPT !.status = Head(statCh)]
    /\ statCh' = Tail(statCh)
    /\ pc' = "recv_sc"
    /\ UNCHANGED <<file, now, ncmds, cmd, result, cfg, serverURL, interval,
                   deadline, pollResp, calls, hist, out, arg, ret,
                   resCh, scCh, gopc, subErr, view>>
    /\ UNCHANGED raceVars
    /\ UNCHANGED spinVars

\* fr.scorecard = <-scCh, then the panel is built and printed.
runGetEntity_RecvScorecard_Fails ==
    /\ pc = "recv_sc" /\ Len(scCh) > 0
    /\ fr' = [fr EXCEPT !.scorecard = Head(scCh)]
    /\ scCh' = Tail(scCh)
    /\ IF subErr.res # NoError \/ subErr.stat # NoError \/ subErr.sc # NoError
       THEN /\ view' = view
            /\ Finish("get_entity_failed")
       ELSE /\ view' = Some(Sections(EntityDetail, fr'))
            /\ Finish("ok")
    /\ UNCHANGED <<file, now, ncmds, cmd, cfg, serverURL, interval,
                   deadline, pollResp, calls, hist, out, arg, ret,
                   resCh, statCh, gopc, subErr>>
    /\ UNCHANGED raceVars
    /\ UNCHANGED spinVars

runGetEntity_RecvScorecard ==
    /\ pc = "recv_sc" /\ Len(scCh) > 0
    /\ fr' = [fr EXCEPT !.scorecard = Head(scCh)]
    /\ scCh' = Tail(scCh)
    /\ view' = Some(Sections(EntityDetail, fr'))
    /\ Finish("ok")
    /\ UNCHANGED <<file, now, ncmds, cmd, cfg, serverURL, interval,
                   deadline, pollResp, calls, hist, out, arg, ret,
                   resCh, statCh, gopc, subErr>>
    /\ UNCHANGED raceVars
    /\ UNCHANGED spinVars

NextEntity ==
    \/ runGetEntity_Start
    \/ go_Resources
    \/ go_Status
    \/ go_Scorecard
    \/ runGetEntity_RecvResources
    \/ runGetEntity_RecvStatus
    \/ runGetEntity_RecvScorecard

SpecEntity == InitEntity /\ [][NextEntity]_vars

\* The Go scheduler runs every runnable goroutine, and every request comes
\* back (the HTTP client gives up after 30 seconds).
FairSpecEntity == InitEntity /\ [][NextEntity]_vars /\ WF_vars(NextEntity)


\* ------------------------------------------------ Save, then Load
UsersRT == {Alice, User("a@b.com", "", ""), User("", "", "")}

AuthsRT ==
    {Auth("", "", "", "", "", "", ZeroTime, Nil), PATAuth}
      \cup { DeviceAuth(t) : t \in 1..(MaxTime + MaxExpiresIn) }
      \cup { Auth("pat", LocalServer, "", "shp_abc", "rt_1", "", 2, Some(u)) :
               u \in UsersRT }

ProfilesRT ==
    {Nil, Some(Profile("Default", LocalServer, Nil)),
     Some(Profile("", "", Nil))}
      \cup { Some(Profile("Work", "https://portal.example", Some(a))) :
               a \in AuthsRT }

ConfigsRT ==
    { Config(v, cur, Profiles2(d, w)) :
        v \in {"1.0"}, cur \in ProfileNames,
        d \in ProfilesRT, w \in ProfilesRT }

InitRoundTrip ==
    /\ arg \in { Some(c) : c \in ConfigsRT }
    /\ ret = Nil
    /\ now = 1
    /\ file = Nil
    /\ NoCommand

\* Config.Save of the config under evaluation.
CallSave ==
    /\ cmd = "none"
    /\ cmd' = "save"
    /\ \E saveOk \in BOOLEAN :
         IF saveOk
         THEN /\ file' = SaveFile(Val(arg))
              /\ result' = "ok"
         ELSE /\ file' = file
              /\ result' = "save_failed"
    /\ calls' = [calls EXCEPT !.save = @ + 1]
    /\ UNCHANGED <<now, ncmds, pc, cfg, serverURL, interval, deadline,
                   pollResp, hist, out, arg, ret>>
    /\ UNCHANGED entityVars
    /\ UNCHANGED raceVars
    /\ UNCHANGED spinVars

\* Load of what Save left on disk.
CallLoad ==
    /\ cmd = "save"
    /\ cmd' = "load"
    /\ ret' = Some(Load(file))
    /\ UNCHANGED <<file, now, ncmds, pc, result, cfg, serverURL, interval,
                   deadline, pollResp, calls, hist, out, arg>>
    /\ UNCHANGED entityVars
    /\ UNCHANGED raceVars
    /\ UNCHANGED spinVars

NextRoundTrip == CallSave \/ CallLoad

SpecRoundTrip == InitRoundTrip /\ [][NextRoundTrip]_vars

\* ------------------------------------------------ the --profile flag
\* rootCmd parses --profile into the package variable profile; arg holds it.
\* Both profiles differ in server and token, so what a command used shows
\* which profile it read.
ProfileFiles ==
    { SaveFile(Config("1.0", cur, Profiles2(d, w))) :
        cur \in ProfileNames,
        d \in {Nil, Some(Profile("Default", LocalServer, Nil)),
               Some(Profile("Default", LocalServer, Some(DeviceAuth(2))))},
        w \in {Nil, Some(Profile("Work", "https://portal.example", Nil)),
               Some(Profile("Work", "https://portal.example",
                            Some(PATAuth)))} }

InitProfile ==
    /\ file \in ProfileFiles
    /\ arg \in { Some(p) : p \in ProfileNames }
    /\ ret = Nil
    /\ now = 1
    /\ NoCommand

\* A command that talks to the API (shoehorn get entities): the client it
\* builds and the request it sends.
CmdGet ==
    /\ CanStart
    /\ \E x \in SessionExchanges :
         LET cl == NewClientFromConfig(file)
         IN  /\ cmd' = "get"
             /\ ncmds' = ncmds + 1
             /\ hist' = [NoHist EXCEPT !.file0 = file]
             /\ IF cl.err # NoError
                THEN /\ Finish("not_authenticated")
                     /\ calls' = NoCalls
                     /\ out' = NoOut
                ELSE /\ Finish(IF Get(x) # NoError THEN "get_failed" ELSE "ok")
                     /\ calls' = [NoCalls EXCEPT !.other = Requests(x)]
                     /\ out' = [NoOut EXCEPT !.token = cl.token,
                                             !.server = cl.server,
                                             !.requests = Requests(x)]
    /\ UNCHANGED <<file, now, cfg, serverURL, interval, deadline, pollResp,
                   arg, ret>>
    /\ UNCHANGED entityVars
    /\ UNCHANGED raceVars
    /\ UNCHANGED spinVars

NextProfile ==
    \/ CmdGet
    \/ CmdLoginPAT
    \/ CmdLogout

SpecProfile == InitProfile /\ [][NextProfile]_vars

\* ------------------------------------- commands that call the API once
ForgeRun == [ID |-> "run_1", Status |-> "queued"]

CreateRun(x) ==
    IF Post(x) # NoError THEN [value |-> Nil, err |-> Post(x)]
    ELSE [value |-> Some(ForgeRun), err |-> NoError]

\* ListEntities: one GET with limit=100; ids are the entities of the page.
ListEntities(x, ids) ==
    IF Get(x) # NoError THEN [value |-> <<>>, err |-> Get(x)]
    ELSE [value |-> ids, err |-> NoError]

\* runCreateRun: the error it returns; failed tells whether a call failed.
runCreateRun(f, inputsOk, mode, x) ==
    LET cl == NewClientFromConfig(f)
        r  == RunSpinner(mode, CreateRun(x))
    IN  IF ~inputsOk THEN [result |-> "inputs_invalid", err |-> Error("inputs")]
        ELSE IF cl.err # NoError
        THEN [result |-> "not_authenticated", err |-> cl.err]
        ELSE IF r.err # NoError
        THEN [result |-> "run_failed_box", err |-> NoError]
        ELSE IF IsNil(r.value)
        THEN [result |-> "panic", err |-> Error("panic")]
        ELSE [result |-> "ok", err |-> NoError]

\* append the ids not seen before, in order
RECURSIVE AppendUnseen(_, _)
AppendUnseen(all, ids) ==
    IF ids = <<>> THEN all
    ELSE AppendUnseen(
           IF \E i \in 1..Len(all) : all[i] = Head(ids) THEN all
           ELSE Append(all, Head(ids)),
           Tail(ids))

\* the loop of runGetOwned over me.Teams; answers[i] is what the listing
\* for team i meets
RECURSIVE OwnedEntities(_, _)
OwnedEntities(all, answers) ==
    IF answers = <<>> THEN all
    ELSE LET r == ListEntities(Head(answers).x, Head(answers).ids)
         IN  OwnedEntities(IF r.err # NoError THEN all
                           ELSE AppendUnseen(all, r.value),
                           Tail(answers))

runGetOwned(f, x, raw, answers) ==
    LET cl == NewClientFromConfig(f)
        me == GetMe(x, raw)
    IN  IF cl.err # NoError
        THEN [result |-> "not_authenticated", err |-> cl.err, entities |-> <<>>]
        ELSE IF me.err # NoError
        THEN [result |-> "get_me_failed", err |-> me.err, entities |-> <<>>]
        ELSE IF Len(answers) = 0
        THEN [result |-> "no_teams", err |-> NoError, entities |-> <<>>]
        ELSE [result |-> "ok", err |-> NoError,
              entities |-> OwnedEntities(<<>>, answers)]

TeamAnswers ==
    { [x |-> x, ids |-> ids] :
        x \in EntityExchanges, ids \in {<<"svc">>, <<"svc", "db">>} }

TeamAnswerLists ==
    {<<>>} \cup { <<a>> : a \in TeamAnswers }
           \cup { <<a, b>> : a \in TeamAnswers, b \in TeamAnswers }

InitPropagate ==
    /\ file \in InitFiles
    /\ arg = Nil
    /\ ret = Nil
    /\ now = 1
    /\ NoCommand

\* Each action runs one command to its end; ret holds the error the command
\* returned and whether a component call it made had failed.
Call_runLoginWithPAT ==
    /\ cmd = "none"
    /\ \E server \in Servers, token \in Tokens, mode \in SpinnerModes,
          x \in SessionExchanges, raw \in RawMes, saveOk \in BOOLEAN :
         LET r == runLoginWithPAT(file, server, token, mode, TRUE, x, raw,
                                  saveOk)
         IN  /\ file' = r.file
             /\ result' = r.result
             /\ arg' = Some([mode |-> mode, x |-> x])
             /\ ret' = Some([err |-> r.err,
                             failed |-> RunSpinner(mode, GetMe(x, raw)).err
                                           # NoError])
    /\ cmd' = "login_pat"
    /\ UNCHANGED <<now, ncmds, pc, cfg, serverURL, interval, deadline,
                   pollResp, calls, hist, out>>
    /\ UNCHANGED entityVars
    /\ UNCHANGED raceVars
    /\ UNCHANGED spinVars

Call_runCreateRun ==
    /\ cmd = "none"
    /\ \E inputsOk \in BOOLEAN, mode \in SpinnerModes,
          x \in SessionExchanges :
         LET r == runCreateRun(file, inputsOk, mode, x)
         IN  /\ result' = r.result
             /\ arg' = Some([mode |-> mode, x |-> x])
             /\ ret' = Some([err |-> r.err,
                             failed |-> /\ inputsOk
                                        /\ NewClientFromConfig(file).err = NoError
                                        /\ RunSpinner(mode, CreateRun(x)).err
                                              # NoError])
    /\ cmd' = "create_run"
    /\ UNCHANGED <<file, now, ncmds, pc, cfg, serverURL, interval, deadline,
                   pollResp, calls, hist, out>>
    /\ UNCHANGED entityVars
    /\ UNCHANGED raceVars
    /\ UNCHANGED spinVars

Call_runGetOwned ==
    /\ cmd = "none"
    /\ \E x \in SessionExchanges, raw \in RawMes,
          answers \in TeamAnswerLists :
         LET r == runGetOwned(file, x, raw, answers)
             reached == /\ NewClientFromConfig(file).err = NoError
                        /\ GetMe(x, raw).err = NoError
         IN  /\ result' = r.result
             /\ arg' = Some([x |-> x, answers |-> answers])
             /\ ret' = Some([err |-> r.err, entities |-> r.entities,
                             failed |->
                                \/ /\ NewClientFromConfig(file).err = NoError
                                   /\ GetMe(x, raw).err # NoError
                                \/ /\ reached
                                   /\ \E i \in 1..Len(answers) :
                                         Get(answers[i].x) # NoError])
    /\ cmd' = "get_owned"
    /\ UNCHANGED <<file, now, ncmds, pc, cfg, serverURL, interval, deadline,
                   pollResp, calls, hist, out>>
    /\ UNCHANGED entityVars
    /\ UNCHANGED raceVars
    /\ UNCHANGED spinVars

NextPropagate ==
    \/ Call_runLoginWithPAT
    \/ Call_runCreateRun
    \/ Call_runGetOwned

SpecPropagate == InitPropagate /\ [][NextPropagate]_vars

\* --------------------------------------- two invocations, one config file
\* The bytes yaml.Marshal produces, line by line: each line is the path of
\* its key followed by its scalar.  Map keys are written in sorted order.
KeyLine(path, key) ==
    IF IsNil(key) THEN <<>> ELSE <<path \o <<":", Val(key)>>>>

UserLines(path, u) ==
    KeyLine(path \o <<"email">>, u.email)
      \o KeyLine(path \o <<"name">>, u.name)
      \o KeyLine(path \o <<"tenant_id">>, u.tenant_id)

AuthLines(path, a) ==
    KeyLine(path \o <<"provider_type">>, a.provider_type)
      \o KeyLine(path \o <<"issuer">>, a.issuer)
      \o KeyLine(path \o <<"client_id">>, a.client_id)
      \o KeyLine(path \o <<"access_token">>, a.access_token)
      \o KeyLine(path \o <<"refresh_token">>, a.refresh_token)
      \o KeyLine(path \o <<"token_type">>, a.token_type)
      \o KeyLine(path \o <<"expires_at">>, a.expires_at)
      \o (IF IsNil(a.user) THEN <<>>
          ELSE <<path \o <<"user">>>>
                 \o UserLines(path \o <<"user">>, Val(a.user)))

ProfileLines(n, pd) ==
    IF IsNil(pd) THEN <<>>
    ELSE <<<<"profiles", n>>>>
           \o KeyLine(<<"profiles", n, "name">>, Val(pd).name)
           \o KeyLine(<<"profiles", n, "server">>, Val(pd).server)
           \o (IF IsNil(Val(pd).auth) THEN <<>>
               ELSE <<<<"profiles", n, "auth">>>>
                      \o AuthLines(<<"profiles", n, "auth">>,
                                   Val(Val(pd).auth)))

Lines(d) ==
    KeyLine(<<"version">>, d.version)
      \o KeyLine(<<"current_profile">>, d.current_profile)
      \o <<<<"profiles">>>>
      \o ProfileLines("default", d.profiles["default"])
      \o ProfileLines("work", d.profiles["work"])

\* os.WriteFile: the file is opened with O_TRUNC, then data is written at
\* offset 0 of whatever the file holds by then.
Truncate(bytes) == <<>>

WriteAt0(bytes, data) ==
    IF Len(data) >= Len(bytes) THEN data
    ELSE data \o SubSeq(bytes, Len(data) + 1, Len(bytes))

\* What the two invocations do between Load and Save.
RaceOps == {"login", "logout"}

OkExchange == Exchange(TRUE, TRUE, TRUE, 200, TRUE, TRUE)

RunOp(op, d) ==
    IF op = "login"
    THEN runLoginWithPAT(Some(d), "https://portal.example", "shp_abc",
                         "plain", TRUE, OkExchange,
                         RawMe("u1", "a@b.com", "A B", "ab", "", "", "acme"),
                         TRUE)
    ELSE runLogout(Some(d), TRUE)

\* The documents that can stand whole on disk.
Docs0 == { Val(f) : f \in InitFiles \ {Nil} } \cup {MarshalYAML(DefaultConfig)}
Docs1 == Docs0 \cup { Val(RunOp(op, d).file) : op \in RaceOps, d \in Docs0 }
RaceDocs == Docs1 \cup { Val(RunOp(op, d).file) : op \in RaceOps, d \in Docs1 }

\* Load on the bytes of the file: the document read, an empty file (which
\* yaml.Unmarshal accepts, leaving the zero Config), or bytes that are no
\* document any Save wrote.
ReadDisk(bytes) ==
    IF IsNil(bytes) THEN [how |-> "absent", doc |-> Nil]
    ELSE IF Val(bytes) = <<>> THEN [how |-> "empty", doc |-> Nil]
    ELSE IF \E d \in RaceDocs : Lines(d) = Val(bytes)
    THEN [how |-> "whole",
          doc |-> Some(CHOOSE d \in RaceDocs : Lines(d) = Val(bytes))]
    ELSE [how |-> "mixed", doc |-> Nil]

InitRace ==
    /\ disk \in {Nil} \cup { Some(Lines(Val(f))) : f \in InitFiles \ {Nil} }
    /\ proc = [p \in Procs |-> NoProc]
    /\ file = Nil
    /\ arg = Nil
    /\ ret = Nil
    /\ now = 1
    /\ NoSession
    /\ NoSpin

otherVars ==
    <<file, now, ncmds, cmd, pc, result, cfg, serverURL, interval, deadline,
      pollResp, calls, hist, out, arg, sp>>

\* An invocation starts: config.Load, then the command changes the config in
\* memory and marshals it.
Proc_Load(p) ==
    /\ proc[p].pc = "none"
    /\ \E op \in RaceOps :
         LET rd == ReadDisk(disk)
             r  == RunOp(op, IF rd.how = "absent"
                             THEN MarshalYAML(DefaultConfig) ELSE Val(rd.doc))
         IN  proc' = [proc EXCEPT ![p] =
               IF rd.how = "mixed"
               THEN [pc |-> "failed", op |-> op, read |-> rd.how, data |-> <<>>]
               ELSE IF rd.how = "empty"
               THEN [pc |-> IF op = "login" THEN "panic" ELSE "failed",
                     op |-> op, read |-> rd.how, data |-> <<>>]
               ELSE IF r.result # "ok"
               THEN [pc |-> "failed", op |-> op, read |-> rd.how, data |-> <<>>]
               ELSE [pc |-> "open", op |-> op, read |-> rd.how,
                     data |-> Lines(Val(r.file))]]
    /\ UNCHANGED <<disk, ret>>
    /\ UNCHANGED otherVars
    /\ UNCHANGED entityVars

\* Save, first half: os.WriteFile opens the file and truncates it.
Proc_Open(p) ==
    /\ proc[p].pc = "open"
    /\ disk' = Some(Truncate(IF IsNil(disk) THEN <<>> ELSE Val(disk)))
    /\ proc' = [proc EXCEPT ![p].pc = "write"]
    /\ UNCHANGED ret
    /\ UNCHANGED otherVars
    /\ UNCHANGED entityVars

\* Save, second half: the marshalled config is written and the file closed.
\* ret remembers the Save that ran last.
Proc_Write(p) ==
    /\ proc[p].pc = "write"
    /\ disk' = Some(WriteAt0(Val(disk), proc[p].data))
    /\ proc' = [proc EXCEPT ![p].pc = "done"]
    /\ ret' = Some(proc[p].data)
    /\ UNCHANGED otherVars
    /\ UNCHANGED entityVars

NextRace ==
    \/ \E p \in Procs : Proc_Load(p)
    \/ \E p \in Procs : Proc_Open(p)
    \/ \E p \in Procs : Proc_Write(p)

SpecRace == InitRace /\ [][NextRace]_vars

\* ------------------------------------------------- manifest validation
\* Client.doIgnoreStatus, the raw-status variant of do: the status is handed
\* back instead of being turned into an error; the request can still fail.
doIgnoreStatus(x) ==
    IF ~x.sent THEN [status |-> 0, err |-> Error("marshal")]
    ELSE IF ~x.net THEN [status |-> 0, err |-> Error("network")]
    ELSE IF ~x.read THEN [status |-> 0, err |-> Error("read")]
    ELSE IF ~x.decodes THEN [status |-> x.status, err |-> Error("decode")]
    ELSE [status |-> x.status, err |-> NoError]

ValidateManifest_ErrorsFrom400(x, valid) ==
    LET r == doIgnoreStatus(x)
    IN  IF r.err # NoError THEN [value |-> Nil, err |-> r.err]
        ELSE IF r.status >= 400
        THEN [value |-> Nil, err |-> APIError(r.status, "server error")]
        ELSE [value |-> Some([Valid |-> valid]), err |-> NoError]

\* ValidateManifest: valid is the "valid" key of the response body.
ValidateManifest(x, valid) ==
    LET r == doIgnoreStatus(x)
    IN  IF r.err # NoError THEN [value |-> Nil, err |-> r.err]
        ELSE IF r.status >= 500
        THEN [value |-> Nil, err |-> APIError(r.status, "server error")]
        ELSE IF r.status = 401 \/ r.status = 403
        THEN [value |-> Nil, err |-> APIError(r.status, "not authorized")]
        ELSE [value |-> Some([Valid |-> valid]), err |-> NoError]

InitValidate ==
    /\ arg \in { Some([x |-> Exchange(s, n, r, st, TRUE, d), valid |-> v]) :
                   s \in BOOLEAN, n \in BOOLEAN, r \in BOOLEAN,
                   st \in StatusCodes, d \in BOOLEAN, v \in BOOLEAN }
    /\ ret = Nil
    /\ now = 1
    /\ file = Nil
    /\ NoCommand

CallValidateManifest ==
    /\ ret = Nil
    /\ ret' = Some(ValidateManifest(Val(arg).x, Val(arg).valid))
    /\ UNCHANGED <<file, now, ncmds, cmd, pc, result, cfg, serverURL,
                   interval, deadline, pollResp, calls, hist, out, arg>>
    /\ UNCHANGED entityVars
    /\ UNCHANGED raceVars
    /\ UNCHANGED spinVars

NextValidate == CallValidateManifest

SpecValidate == InitValidate /\ [][NextValidate]_vars

\* ------------------------------------------- typed accessors on the wire
\* q.Set("limit", "100")
PageLimit == 100

\* Numbers of entities the server has for a listing.
Totals == {0, 1, PageLimit, PageLimit + 1, 2 * PageLimit + 50}

\* ListEntities seen from the wire: the entities it returns out of the
\* total the server has, and the requests it made.
ListEntitiesPage(x, total) ==
    LET page == IF total > PageLimit THEN PageLimit ELSE total
    IN  IF Get(x) # NoError
        THEN [count |-> 0, err |-> Get(x), requests |-> Requests(x)]
        ELSE [count |-> page, err |-> NoError, requests |-> Requests(x)]

Accessors == {"GetMe", "GetEntity", "ListEntities", "CreateRun"}

AccessorExchanges ==
    { Exchange(s, n, r, st, e, d) :
        s \in BOOLEAN, n \in BOOLEAN, r \in BOOLEAN,
        st \in {200, 204, 301, 404, 429, 500, 503},
        e \in BOOLEAN, d \in BOOLEAN }

\* One call of a typed accessor: its error, the requests it put on the wire
\* and, for a listing, the number of entities returned.
CallAccessor(acc, x, total) ==
    LET raw == RawMe("u1", "a@b.com", "A B", "ab", "", "", "acme")
    IN  CASE acc = "GetMe" ->
               [err |-> GetMe(x, raw).err, requests |-> Requests(x),
                count |-> 0]
          [] acc = "GetEntity" ->
               [err |-> GetEntity(x).err, requests |-> Requests(x),
                count |-> 0]
          [] acc = "CreateRun" ->
               [err |-> CreateRun(x).err, requests |-> Requests(x),
                count |-> 0]
          [] acc = "ListEntities" ->
               [err |-> ListEntitiesPage(x, total).err,
                requests |-> ListEntitiesPage(x, total).requests,
                count |-> ListEntitiesPage(x, total).count]

InitAccessor ==
    /\ arg \in { Some([acc |-> a, x |-> x, total |-> t]) :
                   a \in Accessors, x \in AccessorExchanges, t \in Totals }
    /\ ret = Nil
    /\ now = 1
    /\ file = Nil
    /\ NoCommand

Call_Accessor ==
    /\ ret = Nil
    /\ ret' = Some(CallAccessor(Val(arg).acc, Val(arg).x, Val(arg).total))
    /\ UNCHANGED <<file, now, ncmds, cmd, pc, result, cfg, serverURL,
                   interval, deadline, pollResp, calls, hist, out, arg>>
    /\ UNCHANGED entityVars
    /\ UNCHANGED raceVars
    /\ UNCHANGED spinVars

NextAccessor == Call_Accessor

SpecAccessor == InitAccessor /\ [][NextAccessor]_vars

\* ------------------------------------------------ RunSpinner on a terminal
\* What fn can return.
FnOutcomes ==
    { [value |-> Some("me"), err |-> NoError],
      [value |-> Nil, err |-> Error("network")],
      [value |-> Nil, err |-> APIError(401, "error.message")] }

\* Key presses and spinner ticks the program receives while it runs.
Events == {"ctrl+c", "q", "tick"}

sessionVars ==
    <<file, now, ncmds, cmd, pc, result, cfg, serverURL, interval, deadline,
      pollResp, calls, hist, out>>

InitSpinner ==
    /\ arg \in { Some(o) : o \in FnOutcomes }
    /\ ret = Nil
    /\ now = 1
    /\ file = Nil
    /\ NoCommand

\* plainMode || !isaTTY(): return fn()
RunSpinner_Plain ==
    /\ sp.pc = "none"
    /\ sp' = [sp EXCEPT !.pc = "returned", !.fn = "done"]
    /\ ret' = arg
    /\ UNCHANGED <<sessionVars, arg>>
    /\ UNCHANGED entityVars
    /\ UNCHANGED raceVars

\* tea.NewProgram(m); p.Run(): Init starts the ticks and fn.
RunSpinner_Start ==
    /\ sp.pc = "none"
    /\ sp' = [sp EXCEPT !.pc = "running", !.fn = "running"]
    /\ UNCHANGED <<sessionVars, arg, ret>>
    /\ UNCHANGED entityVars
    /\ UNCHANGED raceVars

\* fn returns on its goroutine and its resultMsg is sent to the program.
fn_Returns ==
    /\ sp.fn = "running"
    /\ sp' = [sp EXCEPT !.fn = "done",
                        !.queue = IF sp.pc = "running"
                                  THEN Append(@, "result") ELSE @]
    /\ UNCHANGED <<sessionVars, arg, ret>>
    /\ UNCHANGED entityVars
    /\ UNCHANGED raceVars

\* A key press or a spinner tick reaches the program.
Spinner_Event ==
    /\ sp.pc = "running"
    /\ sp.events < MaxEvents
    /\ \E e \in Events :
         sp' = [sp EXCEPT !.queue = Append(@, e), !.events = @ + 1]
    /\ UNCHANGED <<sessionVars, arg, ret>>
    /\ UNCHANGED entityVars
    /\ UNCHANGED raceVars

\* spinnerModel.Update on the next message; tea.Quit queues the quit.
Update ==
    /\ sp.pc = "running"
    /\ sp.queue # <<>>
    /\ Head(sp.queue) # "quit"
    /\ sp' = IF Head(sp.queue) = "result"
             THEN [sp EXCEPT !.done = TRUE, !.result = Val(arg).value,
                             !.err = Val(arg).err,
                             !.queue = Append(Tail(@), "quit")]
             ELSE IF Head(sp.queue) = "ctrl+c"
             THEN [sp EXCEPT !.queue = Append(Tail(@), "quit")]
             ELSE [sp EXCEPT !.queue = Tail(@)]
    /\ UNCHANGED <<sessionVars, arg, ret>>
    /\ UNCHANGED entityVars
    /\ UNCHANGED raceVars

\* p.Run() returns the final model: return fm.result, fm.err
RunSpinner_Return ==
    /\ sp.pc = "running"
    /\ sp.queue # <<>>
    /\ Head(sp.queue) = "quit"
    /\ sp' = [sp EXCEPT !.pc = "returned", !.queue = <<>>]
    /\ ret' = Some([value |-> sp.result, err |-> sp.err])
    /\ UNCHANGED <<sessionVars, arg>>
    /\ UNCHANGED entityVars
    /\ UNCHANGED raceVars

\* p.Run() fails: return nil, fmt.Errorf("spinner: %w", err)
RunSpinner_RunFails ==
    /\ sp.pc = "running"
    /\ sp' = [sp EXCEPT !.pc = "returned", !.queue = <<>>]
    /\ ret' = Some([value |-> Nil, err |-> Error("spinner")])
    /\ UNCHANGED <<sessionVars, arg>>
    /\ UNCHANGED entityVars
    /\ UNCHANGED raceVars

NextSpinner ==
    \/ RunSpinner_Plain
    \/ RunSpinner_Start
    \/ fn_Returns
    \/ Spinner_Event
    \/ Update
    \/ RunSpinner_Return
    \/ RunSpinner_RunFails

SpecSpinner == InitSpinner /\ [][NextSpinner]_vars

\* ================================================================ claims
\* The auth of a config's current profile; Nil when the profile is missing.
CurAuthOf(c) ==
    IF IsNil(c.Profiles[c.CurrentProfile]) THEN Nil
    ELSE Val(c.Profiles[c.CurrentProfile]).Auth

WithExpiry(c, e) ==
    [c EXCEPT !.Profiles[c.CurrentProfile] =
        Some([Val(@) EXCEPT !.Auth = Some([Val(@) EXCEPT !.ExpiresAt = e])])]

DeviceLoginOver == cmd = "login_device" /\ pc = "idle"
PATLoginOver == cmd = "login_pat" /\ pc = "idle" /\ hist.token # ""
Evaluated == ~IsNil(ret)

\* C1: in a device-flow login where the server answered k polls with pending
\* and then one poll with a non-empty access token, runLogin made exactly one
\* device-init call, exactly k+1 poll calls and exactly one Save, and no Save
\* is made before the success response was received.
C1_OneInitPollsAndOneSave ==
    /\ (cmd = "login_device" /\ calls.save > 0) => ~IsNil(hist.success)
    /\ (DeviceLoginOver /\ ~IsNil(hist.success)) =>
          /\ calls.init = 1
          /\ calls.poll = hist.pendings + 1
          /\ calls.save = 1

\* C2: a device-flow login in which every poll was answered pending ends
\* with the timeout error, makes no Save and leaves the config file as it was
\* when the login started.
C2_TimeoutWritesNothing ==
    (DeviceLoginOver /\ result # "init_failed"
        /\ hist.pendings = calls.poll) =>
       /\ result = "timeout"
       /\ calls.save = 0
       /\ file = hist.file0

C2_Witness ==
    /\ DeviceLoginOver
    /\ result = "timeout"
    /\ hist.pendings >= 2
    /\ ~IsNil(hist.file0)
    /\ IsAuthenticated(Load(file))

\* C3: after a PAT login whose identity call succeeded and which ran to its
\* end, the persisted current profile's auth has provider_type "pat", the
\* supplied token, no expiry, and the email, name and tenant id of the
\* identity GetMe returned; the identity endpoint was called exactly once.
C3_PATLoginPersists ==
    (PATLoginOver /\ result = "ok") =>
       LET a == CurAuthOf(Load(file))
       IN  /\ ~hist.failed
           /\ calls.me = 1
           /\ calls.save = 1
           /\ Load(file).CurrentProfile = Load(hist.file0).CurrentProfile
           /\ ~IsNil(a)
           /\ Val(a).ProviderType = "pat"
           /\ Val(a).AccessToken = hist.token
           /\ Val(a).ExpiresAt = ZeroTime
           /\ Val(a).User = Some(User(Val(hist.me).Email, Val(hist.me).Name,
                                      Val(hist.me).TenantID))

C3_Witness ==
    /\ PATLoginOver
    /\ result = "ok"
    /\ hist.token = "shp_abc"
    /\ Val(hist.me).Email = "c@d.org"
    /\ Val(hist.me).Name = "C D"
    /\ IsNil(Load(hist.file0).Profiles[Load(hist.file0).CurrentProfile])

\* C4: when the identity call of a PAT login fails, no Save is made, the
\* config file is exactly what it was, and the identity endpoint is asked at
\* most once.
C4_FailedVerificationWritesNothing ==
    (PATLoginOver /\ hist.failed) =>
       /\ calls.save = 0
       /\ file = hist.file0
       /\ calls.me <= 1
       /\ result # "ok"

C4_Witness ==
    /\ PATLoginOver
    /\ hist.failed
    /\ calls.me = 1
    /\ ~IsNil(hist.file0)
    /\ IsAuthenticated(Load(hist.file0))

\* C5: after a successful logout the profile that was current is not
\* authenticated any more, and the command made no HTTP request.
C5_LogoutClearsLocally ==
    (cmd = "logout" /\ pc = "idle" /\ result = "ok") =>
       /\ Load(file).CurrentProfile = Load(hist.file0).CurrentProfile
       /\ ~IsAuthenticated(Load(file))
       /\ IsNil(CurAuthOf(Load(file)))
       /\ NetCalls = 0

C5_Witness ==
    /\ cmd = "logout"
    /\ pc = "idle"
    /\ result = "ok"
    /\ IsAuthenticated(Load(hist.file0))

\* C6: IsAuthenticated is true exactly when the current profile exists and
\* its auth carries a non-empty access token, and no value of expires_at
\* changes its answer.
C6_AuthenticatedIffToken ==
    Evaluated =>
       LET c == Val(arg)
           a == CurAuthOf(c)
       IN  /\ Val(ret).authenticated
                = (~IsNil(a) /\ Val(a).AccessToken # "")
           /\ ~IsNil(a) =>
                \A e \in ZeroTime..(MaxTime + 1) :
                    IsAuthenticated(WithExpiry(c, e)) = Val(ret).authenticated

C6_Witness ==
    /\ Evaluated
    /\ Val(ret).authenticated
    /\ Val(ret).expired
    /\ Val(CurAuthOf(Val(arg))).ExpiresAt # ZeroTime

\* C7: for a config whose current profile's auth has provider_type "pat",
\* IsTokenExpired is false at every time, whatever expires_at holds.
C7_PATNeverExpired ==
    (Evaluated /\ ~IsNil(CurAuthOf(Val(arg)))
        /\ Val(CurAuthOf(Val(arg))).ProviderType = "pat") =>
       ~Val(ret).expired

\* C8: for a config whose current profile's auth has provider_type "device"
\* and no expires_at, IsTokenExpired is true.
C8_DeviceWithoutExpiryIsExpired ==
    (Evaluated /\ ~IsNil(CurAuthOf(Val(arg)))
        /\ Val(CurAuthOf(Val(arg))).ProviderType = "device"
        /\ Val(CurAuthOf(Val(arg))).ExpiresAt = ZeroTime) =>
       Val(ret).expired

C8_Witness ==
    /\ Evaluated
    /\ ~IsNil(CurAuthOf(Val(arg)))
    /\ Val(CurAuthOf(Val(arg))).ProviderType = "device"
    /\ Val(CurAuthOf(Val(arg))).ExpiresAt = ZeroTime
    /\ Val(ret).authenticated
    /\ now = MaxTime

NonPATWithExpiry ==
    /\ Evaluated
    /\ ~IsNil(CurAuthOf(Val(arg)))
    /\ Val(CurAuthOf(Val(arg))).ProviderType # "pat"
    /\ Val(CurAuthOf(Val(arg))).ExpiresAt # ZeroTime

\* C9 as stated: for a non-pat profile with expires_at set, IsTokenExpired is
\* true exactly when now >= expires_at.
C9_ExpiredAtOrAfter ==
    NonPATWithExpiry =>
       Val(ret).expired = (now >= Val(CurAuthOf(Val(arg))).ExpiresAt)

\* C9 amended: for a non-pat profile with expires_at set, IsTokenExpired is
\* true exactly when now is strictly later than expires_at; at the instant
\* now = expires_at it is still false.
C9_ExpiredStrictlyAfter ==
    NonPATWithExpiry =>
       Val(ret).expired = (now > Val(CurAuthOf(Val(arg))).ExpiresAt)

C9_Witness ==
    /\ NonPATWithExpiry
    /\ now = Val(CurAuthOf(Val(arg))).ExpiresAt
    /\ ~Val(ret).expired

\* C10: for an exchange whose response was received and read, Client.do
\* returns an API error carrying the response's status code when the status
\* is outside [200,300), and no API error when it is inside; an API error is
\* never returned for a status inside [200,300).
C10_APIErrorIffNon2xx ==
    Evaluated =>
       LET x == Val(arg).x
           e == Val(ret)
       IN  /\ (x.sent /\ x.net /\ x.read /\ (x.status < 200 \/ x.status >= 300))
                => (e.kind = "api" /\ e.status = x.status)
           /\ (x.status >= 200 /\ x.status < 300) => e.kind # "api"
           /\ e.kind = "api" => e.status = x.status

C10_Witness ==
    /\ Evaluated
    /\ Val(ret).kind = "api"
    /\ Val(ret).status = 302
    /\ ~Val(arg).x.envelope

\* C11: a failed call is classified by its HTTP status: 401 and 403 as
\* auth-required, 404 as not-found, 400 and 422 as validation, and every
\* status >= 500 as the generic (server) error.
C11_ClassifiedByStatus ==
    (Evaluated /\ Val(arg).err.kind = "api") =>
       LET st == Val(arg).err.status
           c  == Val(ret).classified
       IN  /\ st \in {401, 403} => c = ExitAuthRequired
           /\ st = 404 => c = ExitNotFound
           /\ st \in {400, 422} => c = ExitValidation
           /\ st >= 500 => c = ExitError

\* C12: the process exit code follows the category of the surfaced error:
\* 0 on success, 2 auth-required, 3 not-found, 4 validation, 5 timeout,
\* 6 cancelled, 1 for any other error.
C12_ExitCodeByCategory ==
    Evaluated =>
       LET e == Val(arg).err
           p == Val(ret).process
       IN  /\ e.kind = "nil" => p = 0
           /\ e.kind = "not_authenticated" => p = 2
           /\ (e.kind = "api" /\ e.status = 401) => p = 2
           /\ e.kind = "profile" => p = 3
           /\ (e.kind = "api" /\ e.status = 404) => p = 3
           /\ (e.kind = "api" /\ e.status = 400) => p = 4
           /\ e.kind = "timeout" => p = 5
           /\ e.kind = "decode" => p = 1

\* ---- entity detail
AggregationOver == cmd = "get_entity" /\ pc = "idle" /\ gopc.res = "done"

HasSection(v, title) == \E i \in 1..Len(v) : v[i].Title = title

HasMainField(v, label) ==
    \E j \in 1..Len(v[1].Fields) : v[1].Fields[j].Label = label

ShowsResources(v, resources) ==
    \E i \in 1..Len(v) :
       /\ v[i].Title = "Resources"
       /\ Len(v[i].Fields) = Len(resources)
       /\ \A j \in 1..Len(resources) : v[i].Fields[j].Label = resources[j]

MarkedUnavailable(v, what) ==
    \E i \in 1..Len(v) :
       \/ v[i].Title = what /\ v[i].Fields = <<Field("", <<"unavailable">>)>>
       \/ \E j \in 1..Len(v[i].Fields) :
             /\ v[i].Fields[j].Label = what
             /\ v[i].Fields[j].Value = <<"unavailable">>

C14_ScorecardMarkedUnavailable ==
    ( /\ AggregationOver
      /\ gopc.sc = "done" /\ subErr.sc # NoError
      /\ subErr.stat = NoError
      /\ subErr.res = NoError /\ Len(fr.resources) > 0 )
    => /\ result = "ok"
       /\ HasMainField(Val(view), "Status")
       /\ ShowsResources(Val(view), fr.resources)
       /\ MarkedUnavailable(Val(view), "Scorecard")

\* C15: Save followed by Load yields the saved Config: same profiles, same
\* current_profile, and the same value in every auth field.
C15_SaveLoadRoundTrip ==
    (cmd = "load" /\ result = "ok") => Val(ret) = Val(arg)

C15_Witness ==
    /\ cmd = "load" /\ result = "ok"
    /\ ~IsNil(Val(ret).Profiles["default"])
    /\ ~IsNil(Val(ret).Profiles["work"])
    /\ IsNil(Val(Val(ret).Profiles["default"]).Auth)
    /\ ~IsNil(Val(Val(ret).Profiles["work"]).Auth)
    /\ Val(Val(Val(ret).Profiles["work"]).Auth).ExpiresAt # ZeroTime
    /\ Val(Val(Val(ret).Profiles["work"]).Auth).RefreshToken # ""
    /\ Val(Val(Val(Val(ret).Profiles["work"]).Auth).User).Name = ""

\* ---- device flow: what is stored
Authenticated == ~IsNil(hist.success)

C17_MissingProfileCreated ==
    ( /\ DeviceLoginOver /\ Authenticated
      /\ ~IsNil(Val(hist.success).User)
      /\ ~GetCurrentProfile(Load(hist.file0)).ok )
    => /\ result \in {"ok", "save_failed"}
       /\ result = "ok" =>
             /\ ~IsNil(CurAuthOf(Load(file)))
             /\ Val(CurAuthOf(Load(file))).AccessToken
                   = Val(hist.success).AccessToken

\* C18: a device-flow login interrupted from outside while it polls or
\* sleeps writes no credentials, leaves the config file untouched, and
\* runLogin returns a cancellation error.
C18_InterruptReturnsCancellation ==
    (DeviceLoginOver /\ hist.interrupted) =>
       /\ calls.save = 0
       /\ file = hist.file0
       /\ result = "cancelled"

\* C19: whatever the server answers (pending or slow_down on every poll,
\* interval 0 included), the poll loop ends: it reaches Authenticated, the
\* timeout of the expires_in deadline, or a failure.
C19_PollLoopTerminates ==
    (pc = "loop") ~>
       \/ pc = "store"
       \/ pc = "idle" /\ result \in {"timeout", "poll_failed", "unexpected"}

C19_Witness ==
    /\ DeviceLoginOver
    /\ result = "timeout"
    /\ interval = 0
    /\ hist.pendings = calls.poll
    /\ hist.pendings > MaxPolls
    /\ pollResp.Message = "slow_down"

\* C20: a command run with --profile P reads the server and credentials of
\* profile P, and login and logout write profile P, whatever current_profile
\* the config file names.
C20_ProfileFlagSelects ==
    (pc = "idle" /\ cmd # "none") =>
       LET P  == Val(arg)
           p0 == Load(hist.file0).Profiles[P]
           p1 == Load(file).Profiles[P]
       IN  /\ ( /\ cmd = "get"
                /\ ~IsNil(p0) /\ ~IsNil(Val(p0).Auth)
                /\ Val(Val(p0).Auth).AccessToken # "" )
              => /\ result # "not_authenticated"
                 /\ out.token = Val(Val(p0).Auth).AccessToken
                 /\ out.server = Val(p0).Server
           /\ (cmd = "login_pat" /\ result = "ok")
              => /\ ~IsNil(p1) /\ ~IsNil(Val(p1).Auth)
                 /\ Val(Val(p1).Auth).AccessToken = hist.token
           /\ (cmd = "logout" /\ result = "ok")
              => /\ ~IsNil(p1) /\ IsNil(Val(p1).Auth)

\* C21: a failed component-level call is always propagated: a command in
\* which a call failed (PAT verification, run creation, a per-team entity
\* listing) returns an error.
C21_FailedCallSurfaces ==
    (Evaluated /\ cmd \in {"login_pat", "create_run", "get_owned"}
        /\ Val(ret).failed) => Val(ret).err # NoError

\* C22: Save is atomic: no invocation ever reads a partially written file,
\* and after two concurrent invocations have both saved, the file is exactly
\* the complete config written by the Save that ran last.
C22_LastWriterWinsWhole ==
    /\ \A p \in Procs : proc[p].read \notin {"empty", "mixed"}
    /\ (\A p \in Procs : proc[p].pc = "done") => disk = ret

\* C23: ValidateManifest returns an error exactly when the request itself
\* failed or the status is 401, 403 or >= 500; for every other status, 422
\* included, it returns the decoded validation result.
C23_ValidateErrorsOnlyOnHardFailures ==
    Evaluated =>
       LET x == Val(arg).x
           r == Val(ret)
           requestFailed == ~x.sent \/ ~x.net \/ ~x.read \/ ~x.decodes
       IN  /\ r.err # NoError
                <=> (requestFailed \/ x.status \in {401, 403}
                       \/ x.status >= 500)
           /\ r.err = NoError
                => (~IsNil(r.value) /\ Val(r.value).Valid = Val(arg).valid)
           /\ r.err # NoError => IsNil(r.value)

C23_Witness ==
    /\ Evaluated
    /\ Val(arg).x.status = 422
    /\ ~Val(arg).valid
    /\ Val(ret).err = NoError
    /\ ~Val(Val(ret).value).Valid

\* ---- entity detail: the join
Launched(g) == gopc[g] # "none"
InFanOut == cmd = "get_entity" /\ pc \in {"recv_res", "recv_stat", "recv_sc"}
ChannelsEmpty == resCh = <<>> /\ statCh = <<>> /\ scCh = <<>>

\* C24: each sub-fetch writes only its own result slot, and the view is
\* built only after every launched sub-fetch has delivered: main never goes
\* on after just the first result, whatever the completion order.
C24_JoinBeforeMerge ==
    /\ ~IsNil(view) =>
          /\ \A g \in {"res", "stat", "sc"} : gopc[g] # "run"
          /\ ChannelsEmpty
    /\ pc \in {"recv_stat", "recv_sc"} => gopc.res = "done"
    /\ pc = "recv_sc" => gopc.stat = "done"
    /\ gopc.res = "run" => (resCh = <<>> /\ fr.resources = <<>>)
    /\ gopc.stat = "run" => (statCh = <<>> /\ IsNil(fr.status))
    /\ gopc.sc = "run" => (scCh = <<>> /\ IsNil(fr.scorecard))

C24_Witness ==
    /\ AggregationOver
    /\ ~IsNil(view)
    /\ Val(arg).showScorecard
    /\ subErr.res # NoError
    /\ subErr.stat = NoError
    /\ subErr.sc = NoError
    /\ HasSection(Val(view), "Scorecard")
    /\ HasMainField(Val(view), "Status")

\* C30: the fan-out cannot deadlock: with or without --scorecard and for
\* every outcome and order of the sub-fetches, main receives one value from
\* each channel and every launched goroutine makes its one send and ends.
C30_FanOutCompletes ==
    /\ [](Len(resCh) <= 1 /\ Len(statCh) <= 1 /\ Len(scCh) <= 1)
    /\ InFanOut ~>
          ( /\ cmd = "get_entity" /\ pc = "idle" /\ result = "ok"
            /\ \A g \in {"res", "stat", "sc"} : gopc[g] # "run"
            /\ ChannelsEmpty )

C30_Witness ==
    /\ AggregationOver
    /\ result = "ok"
    /\ ~Val(arg).showScorecard
    /\ ~Launched("sc")
    /\ ChannelsEmpty
    /\ subErr.res # NoError /\ subErr.stat # NoError

\* ---- device flow: pacing and failures
Polling == cmd = "login_device" /\ pc = "loop"

\* C25: a pending answer makes runLogin sleep the current interval before
\* the next poll; slow_down doubles the interval first, the doubled value is
\* the one slept and the one kept, and the interval never decreases while
\* the login polls.
C25_SlowDownDoublesBeforeSleep ==
    [][ Polling =>
          /\ interval' >= interval
          /\ (pc' = "loop" /\ hist'.pendings = hist.pendings + 1) =>
                /\ interval' = IF pollResp'.Message = "slow_down"
                               THEN 2 * interval ELSE interval
                /\ now' >= now + interval' ]_vars

C25_Witness ==
    /\ Polling
    /\ hist.pendings >= 2
    /\ interval = 2
    /\ pollResp.Pending /\ pollResp.Message = ""
    /\ now >= 4

\* C26: a poll that is answered with neither a token nor pending, or that
\* fails, ends the login with an error: it was the last poll, no Save is
\* made and the config file is what it was when the login started.
C26_OtherAnswerFails ==
    ( /\ DeviceLoginOver /\ result # "init_failed"
      /\ pollResp.AccessToken = "" /\ ~pollResp.Pending )
    => /\ result \in {"poll_failed", "unexpected"}
       /\ ~Authenticated
       /\ calls.poll <= hist.pendings + 1
       /\ calls.save = 0
       /\ file = hist.file0

C26_Witness ==
    /\ DeviceLoginOver
    /\ result = "unexpected"
    /\ hist.pendings >= 1
    /\ pollResp.Message = "slow_down"
    /\ IsAuthenticated(Load(file))

\* C27: every poll response with a non-empty access token leads to the
\* credentials being persisted, with or without the optional user,
\* refresh_token, token_type and expires_at (the current profile exists and
\* the file can be written).
C27_TokenAlwaysPersisted ==
    ( /\ DeviceLoginOver /\ Authenticated
      /\ GetCurrentProfile(Load(hist.file0)).ok
      /\ result # "save_failed" )
    => /\ result = "ok"
       /\ calls.save = 1
       /\ ~IsNil(CurAuthOf(Load(file)))
       /\ Val(CurAuthOf(Load(file))).AccessToken
             = Val(hist.success).AccessToken

C29_NilErrorMeansFnValue ==
    (sp.pc = "returned" /\ Val(ret).err = NoError) =>
       /\ sp.fn = "done"
       /\ Val(ret) = Val(arg)
       /\ ~IsNil(Val(ret).value)

====
